---- MODULE Spec2Model ----
(***************************************************************************)
(* FakeCleaner: the single React component App of src/client/fake.js.      *)
(*                                                                         *)
(* The component's useState cells are the variables.  Every event handler  *)
(* is an operator from a component state (a record of the cells) to the    *)
(* next component state; an action is the guard under which the handler's  *)
(* element is rendered, plus the handler applied to the current state.     *)
(* Four things live outside the useState cells and are state too: the      *)
(* FileReader started by handleFile, the intervals created by              *)
(* handleProcessData and handleDownload, and the chart kept in the         *)
(* chartInstance ref by the effect that runs when isProcessed changes.     *)
(*                                                                         *)
(* Text is a sequence of one-character strings, so that String.split is    *)
(* computed, not assumed.  A nullable cell holds Null or Some(value).      *)
(*                                                                         *)
(* isDragging (lines 7, 32-44) only selects a CSS class of the drop zone;  *)
(* it is left out.  A read that fails never calls onload (no onerror is    *)
(* set): the component then stays as handleFile left it, as in every       *)
(* behaviour that takes no ReaderOnload step.                              *)
(***************************************************************************)
EXTENDS Integers, Sequences, FiniteSets, TLC

VARIABLES
    file,               \* useState<File | null>, line 8
    fileInfo,           \* useState<{name,size,rows,columns} | null>, lines 9-14
    previewData,        \* useState<string[][]>, line 15
    activeTab,          \* line 16
    processingStatus,   \* line 17
    processingProgress, \* line 18
    downloadProgress,   \* line 19
    isDownloading,      \* line 20
    cleaningOptions,    \* lines 21-25
    isProcessed,        \* line 26
    chartInstance,      \* useRef<echarts.ECharts | null>, line 30
    upload,             \* the latest upload attempt: none / rejected / reading / loaded
    procIntervals,      \* live intervals created at line 100
    dlIntervals,        \* live intervals created at line 118
    twin                \* a second component instance, used by the two-run specifications

vars == <<file, fileInfo, previewData, activeTab, processingStatus,
          processingProgress, downloadProgress, isDownloading, cleaningOptions,
          isProcessed, chartInstance, upload, procIntervals, dlIntervals,
          twin>>

-----------------------------------------------------------------------------
(* Nullable values *)

Null == <<>>

Some(x) == <<x>>

Get(o) == o[1]

-----------------------------------------------------------------------------
(* Bounds of the model *)

\* The Process Data button is clicked while fewer than this many processing
\* intervals are live.
MaxProcIntervals == 2

-----------------------------------------------------------------------------
(* Program constants *)

ProcessingStep == 10

ProcessingFull == 100

DownloadStep == 5

DownloadFull == 100

PreviewLines == 5

FakePreviewRows == 4

ShowingRowsLabel == 4

RowCountSetting == 100

DuplicatesRemovedLabel == 24

MissingValuesHandledLabel == 37

FormatsStandardizedLabel == 15

QualityComplete == 93

QualityMissing == 5

QualityDuplicates == 2

KB == 1024

MB == 1048576

MissingValueOptions == {"mean", "median", "mode", "remove", "zero"}

ToggleOptions == {"removeDuplicates", "standardizeFormats"}

Tabs == {"cleaned", "fake"}

DownloadTypes == {"cleaned", "fake"}

CSV == "text/csv"

NL == "\n"

COMMA == ","

-----------------------------------------------------------------------------
(* Text: String.prototype.split, Array.prototype.slice *)

Min(a, b) == IF a < b THEN a ELSE b

\* s.split(sep) for a one-character separator: the pieces between the
\* separators, so n separators give n + 1 pieces and "" gives [""].
RECURSIVE Split(_, _)
Split(s, sep) ==
    IF \A i \in 1..Len(s) : s[i] # sep
    THEN <<s>>
    ELSE LET i == CHOOSE k \in 1..Len(s) :
                      s[k] = sep /\ \A j \in 1..(k - 1) : s[j] # sep
         IN  <<SubSeq(s, 1, i - 1)>> \o Split(SubSeq(s, i + 1, Len(s)), sep)

\* a.slice(0, n)
SliceTo(a, n) == SubSeq(a, 1, Min(n, Len(a)))

\* a.slice(1)
SliceFrom1(a) == SubSeq(a, 2, Len(a))

\* lines.map(line => line.split(','))
SplitOnComma(lines) == [i \in 1..Len(lines) |-> Split(lines[i], COMMA)]

\* formatFileSize: the number shown and its unit.  toFixed(1) rounds the
\* exact quotient to tenths, ties upward; the result is kept in tenths.
formatFileSize(bytes) ==
    IF bytes < KB THEN [value |-> bytes, unit |-> "bytes"]
    ELSE IF bytes < MB
         THEN [value |-> (bytes * 10 * 2 + KB) \div (2 * KB), unit |-> "tenths of KB"]
         ELSE [value |-> (bytes * 10 * 2 + MB) \div (2 * MB), unit |-> "tenths of MB"]

-----------------------------------------------------------------------------
(* Files the user can offer *)

MkFile(name, type, content) ==
    [name |-> name, type |-> type, size |-> Len(content), content |-> content]

\* name,age / Alice,30 / Bob,<empty> / Alice,30 with one-letter cells
PeopleCsv ==
    MkFile("people.csv", CSV,
           <<"n", ",", "g", NL, "A", ",", "3", NL, "B", ",", NL, "A", ",", "3">>)

\* a file with no content
EmptyCsv == MkFile("empty.csv", CSV, <<>>)

\* a,b / a / <end of line>: a short row, and a newline after the last row
RaggedCsv == MkFile("ragged.csv", CSV, <<"a", ",", "b", NL, "a", NL>>)

\* a file that is not a CSV file
NotesTxt == MkFile("notes.txt", "text/plain", <<"h", "i">>)

SampleFiles == {PeopleCsv, EmptyCsv, RaggedCsv, NotesTxt}

-----------------------------------------------------------------------------
(* The component state as one record, and its assignment *)

St ==
    [file |-> file, fileInfo |-> fileInfo, previewData |-> previewData,
     activeTab |-> activeTab, processingStatus |-> processingStatus,
     processingProgress |-> processingProgress,
     downloadProgress |-> downloadProgress, isDownloading |-> isDownloading,
     cleaningOptions |-> cleaningOptions, isProcessed |-> isProcessed,
     chartInstance |-> chartInstance, upload |-> upload, procIntervals |-> procIntervals,
     dlIntervals |-> dlIntervals]

Set(s) ==
    /\ file' = s.file
    /\ fileInfo' = s.fileInfo
    /\ previewData' = s.previewData
    /\ activeTab' = s.activeTab
    /\ processingStatus' = s.processingStatus
    /\ processingProgress' = s.processingProgress
    /\ downloadProgress' = s.downloadProgress
    /\ isDownloading' = s.isDownloading
    /\ cleaningOptions' = s.cleaningOptions
    /\ isProcessed' = s.isProcessed
    /\ chartInstance' = s.chartInstance
    /\ upload' = s.upload
    /\ procIntervals' = s.procIntervals
    /\ dlIntervals' = s.dlIntervals

\* The state after construction: the useState initial values.
InitialState ==
    [file |-> Null, fileInfo |-> Null, previewData |-> <<>>,
     activeTab |-> "cleaned", processingStatus |-> Null,
     processingProgress |-> 0, downloadProgress |-> 0,
     isDownloading |-> FALSE,
     cleaningOptions |-> [removeDuplicates |-> TRUE, missingValues |-> "mean",
                          standardizeFormats |-> TRUE],
     isProcessed |-> FALSE, chartInstance |-> Null, upload |-> "none",
     procIntervals |-> 0, dlIntervals |-> 0]

-----------------------------------------------------------------------------
(* Notions of the cleaning contract, used to state what is expected of the *)
(* results; nothing in the component computes them.                        *)

\* No two rows have all their cells equal.
NoTwoEqualRows(rows) ==
    \A i, j \in 1..Len(rows) : i < j => rows[i] # rows[j]

\* The rows with every later duplicate dropped, in their original order.
RECURSIVE FirstOccurrences(_)
FirstOccurrences(rows) ==
    IF rows = <<>>
    THEN <<>>
    ELSE LET n == Len(rows)
             front == FirstOccurrences(SubSeq(rows, 1, n - 1))
         IN  IF \E i \in 1..(n - 1) : rows[i] = rows[n]
             THEN front
             ELSE Append(front, rows[n])

\* The number of empty cells of a row, and of a sequence of rows.
EmptyCellsOfRow(row) == Cardinality({c \in 1..Len(row) : row[c] = <<>>})

RECURSIVE EmptyCellCount(_)
EmptyCellCount(rows) ==
    IF rows = <<>>
    THEN 0
    ELSE EmptyCellsOfRow(rows[1]) + EmptyCellCount(SubSeq(rows, 2, Len(rows)))

HasEmptyCell(row) == \E c \in 1..Len(row) : row[c] = <<>>

-----------------------------------------------------------------------------
(* Handlers *)

\* handleFile: setFile, then reader.readAsText; onload runs later.
handleFile(s, f) == [s EXCEPT !.file = Some(f), !.upload = "reading"]

\* handleDrop with e.dataTransfer.files = fs
handleDrop(s, fs) ==
    IF Len(fs) > 0
    THEN IF fs[1].type = CSV
         THEN handleFile(s, fs[1])
         ELSE [s EXCEPT !.upload = "rejected"]
    ELSE s

\* handleFileInputChange with e.target.files = fs
handleFileInputChange(s, fs) ==
    IF Len(fs) > 0 THEN handleFile(s, fs[1]) ELSE s

\* reader.onload for the file handleFile was called with
readerOnload(s) ==
    LET f == Get(s.file)
        content == f.content
    IN  IF content # <<>>
        THEN LET lines == Split(content, NL)
                 headers == Split(lines[1], COMMA)
                 preview == SplitOnComma(SliceTo(lines, PreviewLines))
             IN  [s EXCEPT !.fileInfo = Some([name |-> f.name,
                                              size |-> formatFileSize(f.size),
                                              rows |-> Len(lines) - 1,
                                              columns |-> Len(headers)]),
                           !.previewData = preview,
                           !.upload = "loaded"]
        ELSE [s EXCEPT !.upload = "loaded"]

\* handleProcessData, were the status set only when there is none yet.
handleProcessData_keepsStatus(s) ==
    [s EXCEPT !.processingStatus = IF @ = Null THEN Some("Processing") ELSE @,
              !.processingProgress = 0,
              !.procIntervals = @ + 1]

\* handleProcessData: the click
handleProcessData(s) ==
    [s EXCEPT !.processingStatus = Some("Processing"),
              !.processingProgress = 0,
              !.procIntervals = @ + 1]

\* processingTick, were the completing run to write the deduplicated rows
\* back into previewData.
processingTick_cleansInPlace(s) ==
    IF s.processingProgress >= ProcessingFull
    THEN [s EXCEPT !.procIntervals = @ - 1,
                   !.processingStatus = Some("Completed"),
                   !.isProcessed = TRUE,
                   !.processingProgress = ProcessingFull,
                   !.previewData =
                       IF @ = <<>> THEN @
                       ELSE <<@[1]>> \o FirstOccurrences(SubSeq(@, 2, Len(@)))]
    ELSE [s EXCEPT !.processingProgress = @ + ProcessingStep]

\* processingTick, were clearInterval(interval) missing from the callback.
processingTick_neverClears(s) ==
    IF s.processingProgress >= ProcessingFull
    THEN [s EXCEPT !.processingStatus = Some("Completed"),
                   !.isProcessed = TRUE,
                   !.processingProgress = ProcessingFull]
    ELSE [s EXCEPT !.processingProgress = @ + ProcessingStep]

\* processingTick, were the test prev > 100 instead of prev >= 100.
processingTick_lateCheck(s) ==
    IF s.processingProgress > ProcessingFull
    THEN [s EXCEPT !.procIntervals = @ - 1,
                   !.processingStatus = Some("Completed"),
                   !.isProcessed = TRUE,
                   !.processingProgress = ProcessingFull]
    ELSE [s EXCEPT !.processingProgress = @ + ProcessingStep]

\* One run of the interval callback of handleProcessData (lines 100-110)
processingTick(s) ==
    IF s.processingProgress >= ProcessingFull
    THEN [s EXCEPT !.procIntervals = @ - 1,
                   !.processingStatus = Some("Completed"),
                   !.isProcessed = TRUE,
                   !.processingProgress = ProcessingFull]
    ELSE [s EXCEPT !.processingProgress = @ + ProcessingStep]

\* handleDownload: the click; type is 'cleaned' or 'fake' and is not read
handleDownload(s, type) ==
    [s EXCEPT !.isDownloading = TRUE,
              !.downloadProgress = 0,
              !.dlIntervals = @ + 1]

\* downloadTick, were the test prev > 100 instead of prev >= 100.
downloadTick_lateCheck(s) ==
    IF s.downloadProgress > DownloadFull
    THEN [s EXCEPT !.dlIntervals = @ - 1,
                   !.isDownloading = FALSE,
                   !.downloadProgress = DownloadFull]
    ELSE [s EXCEPT !.downloadProgress = @ + DownloadStep]

\* One run of the interval callback of handleDownload
downloadTick(s) ==
    IF s.downloadProgress >= DownloadFull
    THEN [s EXCEPT !.dlIntervals = @ - 1,
                   !.isDownloading = FALSE,
                   !.downloadProgress = DownloadFull]
    ELSE [s EXCEPT !.downloadProgress = @ + DownloadStep]

\* handleMissingValueChange, were the option's text stored instead of its
\* value.
handleMissingValueChange_label(s, value) ==
    [s EXCEPT !.cleaningOptions.missingValues =
                  IF value = "mean" THEN "Replace with Mean" ELSE value]

handleMissingValueChange(s, value) ==
    [s EXCEPT !.cleaningOptions.missingValues = value]

handleToggleChange(s, option) ==
    IF option = "removeDuplicates"
    THEN [s EXCEPT !.cleaningOptions.removeDuplicates = ~@]
    ELSE [s EXCEPT !.cleaningOptions.standardizeFormats = ~@]

setActiveTab(s, tab) == [s EXCEPT !.activeTab = tab]

\* cancelProcessingClick, were the button to clear the intervals and reset
\* the status.
cancelProcessingClick_stops(s) ==
    [s EXCEPT !.processingStatus = Null, !.procIntervals = 0]

\* The Cancel button of the Processing Status section (lines 459-464) has
\* no onClick: a click on it changes nothing.
cancelProcessingClick(s) == s

-----------------------------------------------------------------------------
(* What is rendered *)

\* UploadZoneShown, were the upload zone rendered whether or not a file has
\* been chosen.
UploadZoneShown_always(s) == TRUE

\* {!file && ...}: the upload zone and its file input (line 223)
UploadZoneShown(s) == s.file = Null

\* {file && ...}: the cleaning options and the Process Data button (line 332)
CleaningOptionsShown(s) == s.file # Null

\* {isProcessed && ...}: the results tabs and the download section
\* (lines 501, 704)
ResultsShown(s) == s.isProcessed

\* DownloadButtonsShown, were the buttons rendered during a download too.
DownloadButtonsShown_whileDownloading(s) == s.isProcessed

\* DownloadButtonsShown, were the download section not inside
\* {isProcessed && ...}.
DownloadButtonsShown_unguarded(s) == ~s.isDownloading

\* {isDownloading ? progress bar : button} inside the download section
DownloadButtonsShown(s) == s.isProcessed /\ ~s.isDownloading

\* Data Preview body: previewData.slice(1) (line 311)
DataPreviewRows(s) == SliceFrom1(s.previewData)

\* Rows: {fileInfo?.rows} (line 280)
RowsShown(s) == IF s.fileInfo = Null THEN Null ELSE Some(Get(s.fileInfo).rows)

\* CleanedPreviewRows, were rows with an empty cell left out whatever the
\* missing-value strategy.
CleanedPreviewRows_dropsMissing(s) ==
    SelectSeq(SliceFrom1(s.previewData), LAMBDA row : ~HasEmptyCell(row))

\* Cleaned Data Preview body: previewData.slice(1) (line 549)
CleanedPreviewRows(s) == SliceFrom1(s.previewData)

\* "Showing 4 of {fileInfo?.rows} rows" (line 567): the 4
ShowingCount(s) == ShowingRowsLabel

\* "Showing 4 of {fileInfo?.rows} rows" (line 567)
ShowingOfRows(s) == IF s.fileInfo = Null THEN Null ELSE Some(Get(s.fileInfo).rows)

\* DuplicatesRemovedShown, were the count reported only when Remove
\* Duplicates is switched on.
DuplicatesRemovedShown_whenEnabled(s) ==
    IF s.cleaningOptions.removeDuplicates THEN DuplicatesRemovedLabel ELSE 0

\* Changes Summary (lines 587-598): three literals
DuplicatesRemovedShown(s) == DuplicatesRemovedLabel

MissingValuesHandledShown(s) == MissingValuesHandledLabel

FormatsStandardizedShown(s) == FormatsStandardizedLabel

\* One cell of the Fake Data Preview (line 630); rowIndex and cellIndex
\* count from 0 as in the source.
FakeCell(rowIndex, cellIndex) ==
    IF cellIndex = 0
    THEN <<"Sample ", rowIndex + 1>>
    ELSE <<"Value ", rowIndex + 1, "-", cellIndex>>

\* FakeDataRows, were the cell numbers drawn from an ambient source (here
\* the progress counter) instead of the row and cell index alone.
FakeDataRows_ambient(s) ==
    [r \in 1..FakePreviewRows |->
        IF s.previewData = <<>>
        THEN <<>>
        ELSE [c \in 1..Len(s.previewData[1]) |->
                 FakeCell(r - 1 + s.processingProgress, c - 1)]]

\* Fake Data Preview body: Array(4).fill(0).map(... previewData[0]?.map ...)
\* (lines 623-634); a row has no cells while previewData is empty.
FakeDataRows(s) ==
    [r \in 1..FakePreviewRows |->
        IF s.previewData = <<>>
        THEN <<>>
        ELSE [c \in 1..Len(s.previewData[1]) |-> FakeCell(r - 1, c - 1)]]

-----------------------------------------------------------------------------
(* The commit that follows a handler: the DOM, then the chart effect *)

\* {processingStatus && ... processingStatus !== 'Completed' && <Cancel>}
\* (lines 411, 459)
CancelProcessingShown(s) ==
    s.processingStatus # Null /\ s.processingStatus # Some("Completed")

\* <div ref={chartRef}> is rendered inside {isProcessed && ...} in the
\* 'cleaned' branch of the tabs (lines 501, 530, 582): chartRef.current is
\* that element while it is rendered, and null otherwise.
ChartContainerMounted(s) == s.isProcessed /\ s.activeTab = "cleaned"

\* QualityData, were the counts of the Changes Summary given instead of
\* percentages.
QualityData_counts ==
    [complete |-> QualityComplete, missing |-> MissingValuesHandledLabel,
     duplicates |-> DuplicatesRemovedLabel]

\* series[0].data of the chart option (lines 171-175)
QualityData ==
    [complete |-> QualityComplete, missing |-> QualityMissing,
     duplicates |-> QualityDuplicates]

\* echarts.init(chartRef.current) followed by setOption (lines 150-187).
\* dom says whether the element the chart was created on is still the one
\* in the document ("mounted") or has been removed from it ("removed").
NewChart == [dom |-> "mounted", disposed |-> FALSE, data |-> QualityData]

\* The chart effect (lines 144-200), run because isProcessed changed.
chartEffect(s) ==
    IF ChartContainerMounted(s) /\ s.isProcessed
    THEN [s EXCEPT !.chartInstance = Some(NewChart)]
    ELSE s

\* The cleanup the previous run of the effect returned (lines 195-198):
\* chart.dispose(); the ref keeps the disposed instance.
chartCleanup(s) ==
    IF s.chartInstance # Null
    THEN [s EXCEPT !.chartInstance = Some([Get(@) EXCEPT !.disposed = TRUE])]
    ELSE s

\* The element a chart sits on leaves the document when the container is no
\* longer rendered; a container rendered again is a new element.
domCommit(next) ==
    IF next.chartInstance # Null /\ ~ChartContainerMounted(next)
    THEN [next EXCEPT !.chartInstance = Some([Get(@) EXCEPT !.dom = "removed"])]
    ELSE next

\* The state after the render that follows a handler which took the
\* component from prev to next: the effect has deps [isProcessed].
Render(prev, next) ==
    LET committed == domCommit(next)
    IN  IF next.isProcessed # prev.isProcessed
        THEN LET cleaned == chartCleanup(committed)
             IN  chartEffect(cleaned)
        ELSE committed

-----------------------------------------------------------------------------
(* Events and their dispatch *)

DropEvent(fs) == [kind |-> "drop", files |-> fs]

FileInputEvent(fs) == [kind |-> "input", files |-> fs]

OnloadEvent == [kind |-> "onload"]

ProcessEvent == [kind |-> "process"]

ProcessingTickEvent == [kind |-> "processingTick"]

DownloadEvent(type) == [kind |-> "download", type |-> type]

DownloadTickEvent == [kind |-> "downloadTick"]

MissingValueEvent(value) == [kind |-> "missingValue", value |-> value]

ToggleEvent(option) == [kind |-> "toggle", option |-> option]

TabEvent(tab) == [kind |-> "tab", tab |-> tab]

CancelProcessingEvent == [kind |-> "cancelProcessing"]

\* Whether event e can reach component state s: its element is rendered,
\* its reader is reading, its interval is live.
CanHappen(s, e) ==
    CASE e.kind = "drop" -> UploadZoneShown(s)
      [] e.kind = "input" -> UploadZoneShown(s)
      [] e.kind = "onload" -> s.upload = "reading"
      [] e.kind = "process" ->
            CleaningOptionsShown(s) /\ s.procIntervals < MaxProcIntervals
      [] e.kind = "processingTick" -> s.procIntervals > 0
      [] e.kind = "download" -> DownloadButtonsShown(s)
      [] e.kind = "downloadTick" -> s.dlIntervals > 0
      [] e.kind = "missingValue" -> CleaningOptionsShown(s)
      [] e.kind = "toggle" -> CleaningOptionsShown(s)
      [] e.kind = "tab" -> ResultsShown(s)
      [] e.kind = "cancelProcessing" -> CancelProcessingShown(s)

\* The component state after the handler of event e
Dispatch(s, e) ==
    CASE e.kind = "drop" -> handleDrop(s, e.files)
      [] e.kind = "input" -> handleFileInputChange(s, e.files)
      [] e.kind = "onload" -> readerOnload(s)
      [] e.kind = "process" -> handleProcessData(s)
      [] e.kind = "processingTick" -> processingTick(s)
      [] e.kind = "download" -> handleDownload(s, e.type)
      [] e.kind = "downloadTick" -> downloadTick(s)
      [] e.kind = "missingValue" -> handleMissingValueChange(s, e.value)
      [] e.kind = "toggle" -> handleToggleChange(s, e.option)
      [] e.kind = "tab" -> setActiveTab(s, e.tab)
      [] e.kind = "cancelProcessing" -> cancelProcessingClick(s)

\* The component state after event e and the render it causes
Handle(s, e) == LET next == Dispatch(s, e) IN Render(s, next)

\* Event e happens in the component
Step(e) == CanHappen(St, e) /\ LET next == Handle(St, e) IN Set(next)

-----------------------------------------------------------------------------
(* Actions of the component *)

Drop(fs) == Step(DropEvent(fs)) /\ UNCHANGED twin

FileInputChange(fs) == Step(FileInputEvent(fs)) /\ UNCHANGED twin

ReaderOnload == Step(OnloadEvent) /\ UNCHANGED twin

ProcessDataClick == Step(ProcessEvent) /\ UNCHANGED twin

ProcessingTick == Step(ProcessingTickEvent) /\ UNCHANGED twin

DownloadClick(type) == Step(DownloadEvent(type)) /\ UNCHANGED twin

DownloadTick == Step(DownloadTickEvent) /\ UNCHANGED twin

MissingValueChange(value) == Step(MissingValueEvent(value)) /\ UNCHANGED twin

ToggleChange(option) == Step(ToggleEvent(option)) /\ UNCHANGED twin

TabClick(tab) == Step(TabEvent(tab)) /\ UNCHANGED twin

CancelProcessingClick == Step(CancelProcessingEvent) /\ UNCHANGED twin

FileLists(files) == {<<>>} \cup {<<f>> : f \in files}

\* The variables hold the component state s.
Holds(s) ==
    /\ file = s.file
    /\ fileInfo = s.fileInfo
    /\ previewData = s.previewData
    /\ activeTab = s.activeTab
    /\ processingStatus = s.processingStatus
    /\ processingProgress = s.processingProgress
    /\ downloadProgress = s.downloadProgress
    /\ isDownloading = s.isDownloading
    /\ cleaningOptions = s.cleaningOptions
    /\ isProcessed = s.isProcessed
    /\ chartInstance = s.chartInstance
    /\ upload = s.upload
    /\ procIntervals = s.procIntervals
    /\ dlIntervals = s.dlIntervals

Init ==
    /\ Holds(InitialState)
    /\ twin = InitialState

Next ==
    \/ \E fs \in FileLists(SampleFiles) : Drop(fs)
    \/ \E fs \in FileLists(SampleFiles) : FileInputChange(fs)
    \/ ReaderOnload
    \/ ProcessDataClick
    \/ ProcessingTick
    \/ \E type \in DownloadTypes : DownloadClick(type)
    \/ DownloadTick
    \/ \E value \in MissingValueOptions : MissingValueChange(value)
    \/ \E option \in ToggleOptions : ToggleChange(option)
    \/ \E tab \in Tabs : TabClick(tab)
    \/ CancelProcessingClick

Spec == Init /\ [][Next]_vars

-----------------------------------------------------------------------------
(* The component with its timers running.  The option controls are left   *)
(* out: their handlers write cleaningOptions only, which no timer callback *)
(* and no guard of a timer or of a button reads.                           *)

NextLive ==
    \/ \E fs \in FileLists(SampleFiles) : Drop(fs)
    \/ \E fs \in FileLists(SampleFiles) : FileInputChange(fs)
    \/ ReaderOnload
    \/ ProcessDataClick
    \/ ProcessingTick
    \/ \E type \in DownloadTypes : DownloadClick(type)
    \/ DownloadTick
    \/ \E tab \in Tabs : TabClick(tab)
    \/ CancelProcessingClick

\* setInterval keeps calling its callback until clearInterval (lines 100-110,
\* 118-127): a live interval's tick is not postponed for ever.
SpecLive ==
    /\ Init
    /\ [][NextLive]_vars
    /\ WF_vars(ProcessingTick)
    /\ WF_vars(DownloadTick)

-----------------------------------------------------------------------------
(* Two components fed the same events, except for the cleaning options     *)
(* chosen in each: upload, Process Data and its timer in step, the option  *)
(* controls separately.                                                    *)

\* The variables of the first component
compVars ==
    <<file, fileInfo, previewData, activeTab, processingStatus,
      processingProgress, downloadProgress, isDownloading, cleaningOptions,
      isProcessed, chartInstance, upload, procIntervals, dlIntervals>>

\* Event e happens in the second component
TwinStep(e) == CanHappen(twin, e) /\ twin' = Handle(twin, e)

BothDrop(fs) == Step(DropEvent(fs)) /\ TwinStep(DropEvent(fs))

BothFileInputChange(fs) == Step(FileInputEvent(fs)) /\ TwinStep(FileInputEvent(fs))

BothReaderOnload == Step(OnloadEvent) /\ TwinStep(OnloadEvent)

BothProcessDataClick == Step(ProcessEvent) /\ TwinStep(ProcessEvent)

BothProcessingTick == Step(ProcessingTickEvent) /\ TwinStep(ProcessingTickEvent)

TwinMissingValueChange(value) ==
    TwinStep(MissingValueEvent(value)) /\ UNCHANGED compVars

TwinToggleChange(option) == TwinStep(ToggleEvent(option)) /\ UNCHANGED compVars

NextOptions ==
    \/ \E fs \in FileLists(SampleFiles) : BothDrop(fs)
    \/ \E fs \in FileLists(SampleFiles) : BothFileInputChange(fs)
    \/ BothReaderOnload
    \/ BothProcessDataClick
    \/ BothProcessingTick
    \/ \E value \in MissingValueOptions : MissingValueChange(value)
    \/ \E option \in ToggleOptions : ToggleChange(option)
    \/ \E value \in MissingValueOptions : TwinMissingValueChange(value)
    \/ \E option \in ToggleOptions : TwinToggleChange(option)

SpecOptions == Init /\ [][NextOptions]_vars

-----------------------------------------------------------------------------
(* Two components given the same file, each with its own order and number  *)
(* of Process Data clicks, timer ticks and tab switches.                   *)

\* An upload event offers the file the other component has, if it has one.
SameInput(e, other) ==
    (e.kind \in {"drop", "input"} /\ Len(e.files) > 0 /\ other.file # Null)
        => other.file = Some(e.files[1])

FirstRun(e) == SameInput(e, twin) /\ Step(e) /\ UNCHANGED twin

SecondRun(e) == SameInput(e, St) /\ TwinStep(e) /\ UNCHANGED compVars

NextRuns ==
    \/ \E fs \in FileLists(SampleFiles) : FirstRun(DropEvent(fs))
    \/ \E fs \in FileLists(SampleFiles) : FirstRun(FileInputEvent(fs))
    \/ FirstRun(OnloadEvent)
    \/ FirstRun(ProcessEvent)
    \/ FirstRun(ProcessingTickEvent)
    \/ \E tab \in Tabs : FirstRun(TabEvent(tab))
    \/ \E fs \in FileLists(SampleFiles) : SecondRun(DropEvent(fs))
    \/ \E fs \in FileLists(SampleFiles) : SecondRun(FileInputEvent(fs))
    \/ SecondRun(OnloadEvent)
    \/ SecondRun(ProcessEvent)
    \/ SecondRun(ProcessingTickEvent)
    \/ \E tab \in Tabs : SecondRun(TabEvent(tab))

SpecRuns == Init /\ [][NextRuns]_vars

-----------------------------------------------------------------------------
(* Claims *)

Completed == isProcessed /\ processingStatus = Some("Completed")

\* The rows of the whole uploaded file, header excluded.
DatasetRows(f) == SliceFrom1(SplitOnComma(Split(f.content, NL)))

\* C1: the Process Data click and every run of its timer callback, the
\* completing one included, leave file, fileInfo and previewData as they were.
C1_ProcessingKeepsInput ==
    [][(ProcessDataClick \/ ProcessingTick)
          => UNCHANGED <<file, fileInfo, previewData>>]_vars

\* A run has completed on a parsed file with rows.
C1_Witness ==
    /\ Completed
    /\ fileInfo # Null
    /\ Len(previewData) > 1

\* What the two components show of processing and of the data.
Observed(s) ==
    [processingStatus |-> s.processingStatus,
     processingProgress |-> s.processingProgress,
     isProcessed |-> s.isProcessed,
     previewData |-> s.previewData,
     fileInfo |-> s.fileInfo,
     duplicatesRemoved |-> DuplicatesRemovedShown(s),
     missingValuesHandled |-> MissingValuesHandledShown(s),
     formatsStandardized |-> FormatsStandardizedShown(s)]

\* C2: two components fed the same upload, Process Data and timer events,
\* with whatever cleaning options are chosen in each, agree at every state on
\* processingStatus, processingProgress, isProcessed, previewData, fileInfo and
\* the three summary counts.
C2_OptionsDoNotInfluence == Observed(St) = Observed(twin)

\* Both have completed a run on a parsed file, with all three options
\* different.
C2_Witness ==
    /\ Completed
    /\ fileInfo # Null
    /\ twin.isProcessed
    /\ cleaningOptions.removeDuplicates # twin.cleaningOptions.removeDuplicates
    /\ cleaningOptions.missingValues # twin.cleaningOptions.missingValues
    /\ cleaningOptions.standardizeFormats # twin.cleaningOptions.standardizeFormats

\* C3: after a completed run with Remove Duplicates on, the cleaned rows shown
\* hold no two equal rows and are the first occurrences of the input rows, in
\* their original order.
C3_CleanedRowsAreFirstOccurrences ==
    (Completed /\ activeTab = "cleaned" /\ cleaningOptions.removeDuplicates)
        => /\ NoTwoEqualRows(CleanedPreviewRows(St))
           /\ CleanedPreviewRows(St) = FirstOccurrences(DataPreviewRows(St))

\* C4: after a completed run on a parsed file with Remove Duplicates on and
\* strategy mean, Duplicates Removed is the number of rows of the file dropped
\* as duplicates and Missing Values Handled is the number of empty cells of the
\* rows that remain (1 and 1 for people.csv).
C4_CountsAreThoseOfTheRun ==
    (/\ Completed
     /\ fileInfo # Null
     /\ cleaningOptions.removeDuplicates
     /\ cleaningOptions.missingValues = "mean")
        => LET rows == DatasetRows(Get(file))
               kept == FirstOccurrences(rows)
           IN  /\ DuplicatesRemovedShown(St) = Len(rows) - Len(kept)
               /\ MissingValuesHandledShown(St) = EmptyCellCount(kept)

\* C5: a run that completes when an earlier run's results are already shown,
\* with Remove Duplicates on, reports 0 duplicates removed.
C5_SecondRunRemovesNothing ==
    [][(/\ isProcessed
        /\ cleaningOptions.removeDuplicates
        /\ processingStatus = Some("Processing")
        /\ processingStatus' = Some("Completed"))
          => DuplicatesRemovedShown(St)' = 0]_vars

\* C6: after a completed run with Remove Duplicates off, strategy zero and
\* Standardize Formats off, the cleaned preview has as many rows as the input
\* preview, and the total it reports is fileInfo.rows.
C6_RowCountKept ==
    (/\ Completed
     /\ cleaningOptions = [removeDuplicates |-> FALSE, missingValues |-> "zero",
                           standardizeFormats |-> FALSE])
        => /\ Len(CleanedPreviewRows(St)) = Len(DataPreviewRows(St))
           /\ ShowingOfRows(St) =
                  IF fileInfo = Null THEN Null ELSE Some(Get(fileInfo).rows)

\* Such a run has completed on a parsed file one of whose rows has an empty
\* cell.
C6_Witness ==
    /\ Completed
    /\ cleaningOptions = [removeDuplicates |-> FALSE, missingValues |-> "zero",
                          standardizeFormats |-> FALSE]
    /\ fileInfo # Null
    /\ \E i \in 1..Len(DataPreviewRows(St)) : HasEmptyCell(DataPreviewRows(St)[i])

\* C7: the fake dataset shown after processing has as many rows as the row
\* count setting, 100.
C7_FakeRowsMatchRowCount ==
    (isProcessed /\ activeTab = "fake")
        => Len(FakeDataRows(St)) = RowCountSetting

\* The header a component has parsed, if any.
Header(s) == IF s.previewData = <<>> THEN Null ELSE Some(s.previewData[1])

ShowsFakeData(s) == s.isProcessed /\ s.activeTab = "fake"

\* C8: two components that have parsed the same header and both show the fake
\* data show the same fake rows, cell for cell, however their clicks, tab
\* switches and timer ticks were ordered.
C8_FakeRowsDeterministic ==
    (ShowsFakeData(St) /\ ShowsFakeData(twin) /\ Header(St) = Header(twin))
        => FakeDataRows(St) = FakeDataRows(twin)

\* Both show fake data for the same parsed header while one of them is in the
\* middle of a further run.
C8_Witness ==
    /\ ShowsFakeData(St)
    /\ ShowsFakeData(twin)
    /\ Header(St) = Header(twin)
    /\ Header(St) # Null
    /\ processingProgress # twin.processingProgress
    /\ procIntervals # twin.procIntervals

\* C9: once a file has been read, every row of previewData has as many cells
\* as the header, which is fileInfo.columns.
C9_RowsAsWideAsHeader ==
    (upload = "loaded" /\ fileInfo # Null)
        => \A i \in 1..Len(previewData) :
               /\ Len(previewData[i]) = Len(previewData[1])
               /\ Len(previewData[i]) = Get(fileInfo).columns

\* C10: once an upload attempt has finished (the drop was rejected, or onload
\* has run), file, fileInfo and previewData are all set or all as they were
\* at construction.
C10_UploadAllOrNothing ==
    upload \in {"rejected", "loaded"}
        => \/ file # Null /\ fileInfo # Null /\ previewData # <<>>
           \/ file = Null /\ fileInfo = Null /\ previewData = <<>>

\* The only error the component reports: the alert of handleDrop (line 51).
ErrorSurfaced(s) == s.upload = "rejected"

\* C11: once a file with no data rows (no content at all, or a header line
\* only) has been read, an error is reported and the Process Data button is
\* not offered.
C11_EmptyDatasetIsError ==
    (file # Null /\ upload = "loaded" /\ Len(DatasetRows(Get(file))) = 0)
        => ErrorSurfaced(St) /\ ~CleaningOptionsShown(St)

\* C12: the complete, missing and duplicates values of the chart are each
\* between 0 and 100, complete is 100 - missing - duplicates, and the three
\* sum to 100.
C12_QualitySumsTo100 ==
    chartInstance # Null
        => LET d == Get(chartInstance).data
           IN  /\ d.complete \in 0..100
               /\ d.missing \in 0..100
               /\ d.duplicates \in 0..100
               /\ d.complete = 100 - d.missing - d.duplicates
               /\ d.complete + d.missing + d.duplicates = 100

\* The chart has been created on the mounted container after a completed run.
C12_Witness ==
    /\ isProcessed
    /\ chartInstance # Null
    /\ Get(chartInstance).dom = "mounted"
    /\ ~Get(chartInstance).disposed

\* C13: at most one processing interval is live.
C13_SingleProcessingTimer == procIntervals <= 1

\* C14: cleaningOptions.missingValues is one of mean, median, mode, remove,
\* zero, and removeDuplicates and standardizeFormats are booleans.
C14_OptionsWellTyped ==
    /\ cleaningOptions.missingValues \in MissingValueOptions
    /\ cleaningOptions.removeDuplicates \in BOOLEAN
    /\ cleaningOptions.standardizeFormats \in BOOLEAN

\* Every control has been used: the strategy was set back to mean from
\* another value with both toggles off.
C14_Witness ==
    /\ cleaningOptions = [removeDuplicates |-> FALSE, missingValues |-> "mean",
                          standardizeFormats |-> FALSE]

\* C15: file is null or a file of type text/csv, by whichever way it came.
C15_OnlyCsvAccepted == file = Null \/ Get(file).type = CSV

\* C16: processingStatus is set only when fileInfo is set and previewData is
\* not empty.
C16_ProcessingOnlyAfterParse ==
    processingStatus # Null => (fileInfo # Null /\ previewData # <<>>)

\* C17: a download is in progress, or has made progress, only when a run has
\* completed.
C17_DownloadOnlyAfterProcessed ==
    (isDownloading \/ downloadProgress > 0) => isProcessed

\* A download is under way.
C17_Witness == isDownloading /\ downloadProgress > 0 /\ dlIntervals > 0

\* C18: whenever the results are shown with the Cleaned Data tab active, the
\* chart sits on the container that is mounted, and has not been disposed.
C18_ChartOnMountedContainer ==
    ChartContainerMounted(St)
        => /\ chartInstance # Null
           /\ Get(chartInstance).dom = "mounted"
           /\ ~Get(chartInstance).disposed

\* C19: from status Processing every step leaves the status Processing or
\* makes it Completed, and an interval ends only in a step that makes it
\* Completed.
C19_NoCancel ==
    [][processingStatus = Some("Processing")
          => /\ processingStatus' \in {Some("Processing"), Some("Completed")}
             /\ procIntervals' < procIntervals
                    => processingStatus' = Some("Completed")]_vars

\* A run is under way, with the Cancel button shown.
C19_Witness ==
    /\ CancelProcessingShown(St)
    /\ procIntervals > 0
    /\ processingProgress > 0

\* C20: processingProgress is a multiple of 10 from 0 to 100.
C20_ProgressInSteps ==
    /\ processingProgress \in 0..ProcessingFull
    /\ processingProgress % ProcessingStep = 0

\* Two intervals are live with the progress at 100.
C20_Witness == procIntervals >= 2 /\ processingProgress = ProcessingFull

\* A run has ended and left nothing behind.
ProcessingDone ==
    /\ processingStatus = Some("Completed")
    /\ processingProgress = ProcessingFull
    /\ isProcessed
    /\ procIntervals = 0

\* C21: unless Process Data is clicked again and again for ever, once a run
\* has been started the status becomes Completed with the progress at 100,
\* isProcessed set and no processing interval left.
C21_ProcessingTerminates ==
    ([]<><<ProcessDataClick>>_vars) \/ (processingStatus # Null ~> ProcessingDone)

\* A run on a file that has been read has ended with every interval cleared.
C21_Witness ==
    /\ ProcessingDone
    /\ upload = "loaded"

\* A download has ended and left nothing behind.
DownloadDone ==
    /\ ~isDownloading
    /\ downloadProgress = DownloadFull
    /\ dlIntervals = 0

\* C25: a download that has been started ends with isDownloading false, the
\* progress at 100 and no download interval left; the progress is at every
\* moment a multiple of 5 from 0 to 100.
C25_DownloadTerminates ==
    /\ isDownloading ~> DownloadDone
    /\ [](/\ downloadProgress \in 0..DownloadFull
          /\ downloadProgress % DownloadStep = 0)

\* A download has run to its end.
C25_Witness == isProcessed /\ DownloadDone

\* C22: when the status is Completed the progress is 100 and isProcessed is
\* set.
C22_CompletedAtFullProgress ==
    processingStatus = Some("Completed")
        => (processingProgress = ProcessingFull /\ isProcessed)

\* One run has reported completion while the interval of another click is
\* still live.
C22_Witness ==
    /\ processingStatus = Some("Completed")
    /\ procIntervals = 1

\* C23: isProcessed is set only while the status is Completed.
C23_ProcessedOnlyWhenCompleted ==
    isProcessed => processingStatus = Some("Completed")

\* C24: never more than one download interval is live; while isDownloading
\* no download button is rendered; and as long as a download goes on the
\* progress never falls and each tick adds exactly 5 to it.
C24_SingleDownloadTimer ==
    [][/\ dlIntervals <= 1
       /\ dlIntervals' <= 1
       /\ isDownloading => ~DownloadButtonsShown(St)
       /\ (isDownloading /\ isDownloading')
              => /\ downloadProgress' >= downloadProgress
                 /\ DownloadTick
                        => downloadProgress' = downloadProgress + DownloadStep]_vars

\* A download has reached 100 and its interval has one more tick to run.
C24_Witness ==
    /\ isDownloading
    /\ dlIntervals = 1
    /\ downloadProgress = DownloadFull
    /\ ~DownloadButtonsShown(St)

\* What reader.onload makes of file f: the lines of its content.
LinesOf(f) == Split(f.content, NL)

\* C26: once file is set no step changes it; fileInfo and previewData, once
\* set, are not changed either, and when they are set it is to the values
\* parsed from that file.
C26_FileChosenOnce ==
    [][/\ file # Null => file' = file
       /\ fileInfo # Null => fileInfo' = fileInfo
       /\ previewData # <<>> => previewData' = previewData
       /\ fileInfo' # fileInfo
              => /\ file # Null
                 /\ Get(fileInfo').name = Get(file).name
                 /\ Get(fileInfo').rows = Len(LinesOf(Get(file))) - 1
       /\ previewData' # previewData
              => /\ file # Null
                 /\ previewData' =
                        SplitOnComma(SliceTo(LinesOf(Get(file)), PreviewLines))]_vars

\* A file was read, processed and downloaded: every kind of event has come
\* after the file was chosen.
C26_Witness ==
    /\ file # Null
    /\ fileInfo # Null
    /\ previewData # <<>>
    /\ Completed
    /\ downloadProgress = DownloadFull
    /\ activeTab = "fake"

\* C27: once a file of n lines has been read, previewData is its first
\* min(5, n) lines in order, each split on every comma; and the cleaned
\* preview, which says it is showing 4 rows, shows 4 rows.
C27_PreviewIsHeaderAndFourRows ==
    (upload = "loaded" /\ fileInfo # Null)
        => LET lines == LinesOf(Get(file))
           IN  /\ previewData =
                      [i \in 1..Min(PreviewLines, Len(lines)) |->
                          Split(lines[i], COMMA)]
               /\ (ResultsShown(St) /\ activeTab = "cleaned")
                      => Len(CleanedPreviewRows(St)) = ShowingCount(St)

\* The lines of a CSV text, the empty piece after a final newline left out.
CsvLines(content) ==
    LET lines == Split(content, NL)
    IN  IF lines[Len(lines)] = <<>> THEN SubSeq(lines, 1, Len(lines) - 1) ELSE lines

\* A header line followed by non-empty data lines, with or without a
\* newline after the last line.
HeaderAndDataLines(content) ==
    /\ Len(CsvLines(content)) >= 1
    /\ \A i \in 1..Len(CsvLines(content)) : CsvLines(content)[i] # <<>>

\* C28: for a file that is a header line followed by k non-empty data lines,
\* with or without a final newline, fileInfo.rows is k and is not negative,
\* and fileInfo.columns is the number of comma-separated fields of the header.
C28_RowsAreDataLines ==
    (upload = "loaded" /\ fileInfo # Null /\ HeaderAndDataLines(Get(file).content))
        => /\ Get(fileInfo).rows = Len(CsvLines(Get(file).content)) - 1
           /\ Get(fileInfo).rows >= 0
           /\ Get(fileInfo).columns =
                  Len(Split(CsvLines(Get(file).content)[1], COMMA))

====
